---- MODULE Spec2Model ----
(***************************************************************************)
(* SeekWell: risk assessment of a classified skin lesion and the review    *)
(* lifecycle of a skin lesion image (cadre review, doctor consultation).   *)
(*                                                                         *)
(* Confidence scores are floats in the source; here they are integers in   *)
(* hundredths (0.4 is 40), which keeps every threshold of the source exact. *)
(* Python's None is the value None below.                                  *)
(***************************************************************************)
EXTENDS Integers, Sequences, FiniteSets, TLC

None == "None"

----------------------------------------------------------------------------
(* ai/models/model_config.py : tables                                       *)

MEL == "MEL (Melanoma)"
BCC == "BCC (Basal cell carcinoma)"
SCC == "SCC (Squamous cell carcinoma)"
ACK == "ACK (Actinic keratoses)"
NEV == "NEV (Nevus/Mole)"
SEK == "SEK (Seborrheic keratosis)"

CLASS_LABELS == {ACK, BCC, MEL, NEV, SCC, SEK}

RISK_LEVELS ==
    [l \in CLASS_LABELS |->
        CASE l = ACK -> "MEDIUM"
          [] l = BCC -> "HIGH"
          [] l = MEL -> "URGENT"
          [] l = NEV -> "LOW"
          [] l = SCC -> "HIGH"
          [] l = SEK -> "LOW"]

(* RISK_LEVELS.get(l, default) *)
RiskLevelsGet(l, default) ==
    IF l \in DOMAIN RISK_LEVELS THEN RISK_LEVELS[l] ELSE default

(* a label outside the table: predict() names class index 6 "Class_6" *)
UnknownLabel == "Class_6"

HIGH_CONFIDENCE == 80
MEDIUM_CONFIDENCE == 60
LOW_CONFIDENCE == 40
urgent_threshold == 30
professional_review_threshold == 50

(* RISK_ASSESSMENT_CONFIG["follow_up_days"] *)
follow_up_days ==
    [r \in {"URGENT", "HIGH", "MEDIUM", "LOW"} |->
        CASE r = "URGENT" -> 1
          [] r = "HIGH" -> 7
          [] r = "MEDIUM" -> 30
          [] r = "LOW" -> 90]

high_risk_regions == {"face", "neck", "hands", "feet", "genitals"}

(* The body regions a request may carry: absent, empty, the high-risk       *)
(* regions in several spellings, and regions outside the list.              *)
BodyRegions ==
    {None, "", "face", "Face", "NECK", "neck", "hands", "feet", "genitals",
     "arm", "back"}

(* str.lower() on the regions above *)
Lower(s) ==
    CASE s = "Face" -> "face"
      [] s = "NECK" -> "neck"
      [] OTHER -> s

(* Python truthiness of an Optional[str] *)
Truthy(s) == s # None /\ s # ""

(* `token in predicted_class` : substring test on the class labels *)
Contains(l, token) ==
    CASE token = "MEL" -> l = MEL
      [] token = "BCC" -> l = BCC
      [] token = "SCC" -> l = SCC
      [] OTHER -> FALSE

MaxConfidence == 100
Confidences == 0..MaxConfidence

----------------------------------------------------------------------------
(* ai/models/model_config.py : get_risk_level                               *)

(* a high-risk region sets MEDIUM whatever the base risk was *)
RegionUpgradeFlat(base_risk, region) ==
    IF Truthy(region) /\ Lower(region) \in high_risk_regions
    THEN CASE base_risk = "MEDIUM" -> "HIGH"
           [] OTHER -> "MEDIUM"
    ELSE base_risk

RegionUpgrade(base_risk, region) ==
    IF Truthy(region) /\ Lower(region) \in high_risk_regions
    THEN CASE base_risk = "LOW" -> "MEDIUM"
           [] base_risk = "MEDIUM" -> "HIGH"
           [] OTHER -> base_risk
    ELSE base_risk

(* the urgent override tested before the low-confidence gate *)
get_risk_level_urgent_first(l, c, region) ==
    LET base_risk == RegionUpgrade(RiskLevelsGet(l, "UNCERTAIN"), region)
    IN  IF Contains(l, "MEL") /\ c > urgent_threshold THEN "URGENT"
        ELSE IF c < LOW_CONFIDENCE THEN "UNCERTAIN"
        ELSE base_risk

get_risk_level(l, c, region) ==
    LET base_risk == RegionUpgrade(RiskLevelsGet(l, "UNCERTAIN"), region)
    IN  IF c < LOW_CONFIDENCE THEN "UNCERTAIN"
        ELSE IF Contains(l, "MEL") /\ c > urgent_threshold THEN "URGENT"
        ELSE base_risk

(* the boundary values fall in the lower bucket *)
get_confidence_level_strict(c) ==
    IF c > HIGH_CONFIDENCE THEN "HIGH"
    ELSE IF c > MEDIUM_CONFIDENCE THEN "MEDIUM"
    ELSE IF c > LOW_CONFIDENCE THEN "LOW"
    ELSE "VERY_LOW"

get_confidence_level(c) ==
    IF c >= HIGH_CONFIDENCE THEN "HIGH"
    ELSE IF c >= MEDIUM_CONFIDENCE THEN "MEDIUM"
    ELSE IF c >= LOW_CONFIDENCE THEN "LOW"
    ELSE "VERY_LOW"

needs_professional_review(l, c) ==
    IF \E t \in {"MEL", "BCC", "SCC"} : Contains(l, t) THEN TRUE
    ELSE IF c < professional_review_threshold THEN TRUE
    ELSE FALSE

(* ai/models/skin_cancer_classifier.py : _get_follow_up_days                *)
get_follow_up_days(risk_level) ==
    IF risk_level \in DOMAIN follow_up_days THEN follow_up_days[risk_level]
    ELSE 30

(* the "workflow" section of analyze_lesion, as far as the follow-up goes *)
analyze_lesion_workflow(l, c, region) ==
    LET risk_level == get_risk_level(l, c, region)
    IN  [risk_level |-> risk_level,
         estimated_follow_up_days |-> get_follow_up_days(risk_level)]

(* app/routers/skin_lesions.py : get_analysis_history, the "workflow"      *)
(* section it builds from the stored ai_assessment.risk_level              *)
history_workflow(risk_level) ==
    [risk_level |-> risk_level,
     estimated_follow_up_days |->
        IF risk_level = "LOW" THEN 30
        ELSE IF risk_level = "MEDIUM" THEN 14
        ELSE 7]

(* ai/models/skin_cancer_classifier.py : the risk_assessment of analyze_lesion *)
analyze_lesion(l, c, region) ==
    LET risk_level == get_risk_level(l, c, region)
    IN  [risk_level |-> risk_level,
         confidence_level |-> get_confidence_level(c),
         needs_professional_review |-> needs_professional_review(l, c),
         needs_urgent_attention |-> (risk_level = "URGENT")]

----------------------------------------------------------------------------
(* ai/services/prediction_service.py : SkinLesionPredictor._assess_risk     *)

(* SkinLesionPredictor._get_confidence_level *)
predictor_get_confidence_level(c) ==
    IF c >= HIGH_CONFIDENCE THEN "HIGH"
    ELSE IF c >= MEDIUM_CONFIDENCE THEN "MEDIUM"
    ELSE IF c >= LOW_CONFIDENCE THEN "LOW"
    ELSE "VERY_LOW"

(* the region step sets MEDIUM without testing that the risk was LOW *)
assess_risk_region_flat(l, c, region) ==
    LET base_risk == RiskLevelsGet(l, "MEDIUM")
        adjusted0 == IF c < LOW_CONFIDENCE THEN "UNCERTAIN" ELSE base_risk
        review0 == IF c < LOW_CONFIDENCE THEN TRUE
                   ELSE IF c < MEDIUM_CONFIDENCE THEN TRUE
                   ELSE base_risk \in {"HIGH", "URGENT"}
        inRegion == Truthy(region) /\ Lower(region) \in high_risk_regions
        adjusted_risk == IF inRegion THEN "MEDIUM" ELSE adjusted0
        needs_review == IF inRegion THEN TRUE ELSE review0
    IN  [risk_level |-> adjusted_risk,
         confidence_level |-> predictor_get_confidence_level(c),
         needs_professional_review |-> needs_review,
         needs_urgent_attention |-> (adjusted_risk = "URGENT")]

assess_risk(l, c, region) ==
    LET base_risk == RiskLevelsGet(l, "MEDIUM")
        adjusted0 == IF c < LOW_CONFIDENCE THEN "UNCERTAIN" ELSE base_risk
        review0 == IF c < LOW_CONFIDENCE THEN TRUE
                   ELSE IF c < MEDIUM_CONFIDENCE THEN TRUE
                   ELSE base_risk \in {"HIGH", "URGENT"}
        inRegion == Truthy(region) /\ Lower(region) \in high_risk_regions
        adjusted_risk == IF inRegion /\ adjusted0 = "LOW" THEN "MEDIUM"
                         ELSE adjusted0
        needs_review == IF inRegion THEN TRUE ELSE review0
    IN  [risk_level |-> adjusted_risk,
         confidence_level |-> predictor_get_confidence_level(c),
         needs_professional_review |-> needs_review,
         needs_urgent_attention |-> (adjusted_risk = "URGENT")]

----------------------------------------------------------------------------
(* no assessment computed yet *)
NoAssessment ==
    [risk_level |-> None, confidence_level |-> None,
     needs_professional_review |-> FALSE, needs_urgent_attention |-> FALSE]

(* no follow-up reported yet *)
NoWorkflow == [risk_level |-> None, estimated_follow_up_days |-> 0]

(* app/models.py : rows of skin_lesion_images, cadre_reviews and            *)
(* doctor_consultations, and the requests that work on them                 *)

MaxImages == 1
MaxReviews == 2
MaxConsultations == 2

(* Each worker serves the requests of one signed-in cadre and one signed-in *)
(* doctor.                                                                  *)
Workers == {"w1", "w2"}
cadre_of == [w \in Workers |-> IF w = "w1" THEN "cadre1" ELSE "cadre2"]
doctor_of == [w \in Workers |-> IF w = "w1" THEN "doctor1" ELSE "doctor2"]
Statuses == {"pending", "reviewed", "escalated", "completed"}
ImageIds == 1..MaxImages

(* app/schemas.py : SkinLesionImageBase.status = "pending" *)
UploadStatuses == {"pending"}

NoChange == "NoChange"

(* a session with nothing to flush *)
NoUpdate ==
    [status |-> NoChange, reviewed_by_cadre |-> NoChange,
     reviewed_by_doctor |-> NoChange, set_needs_professional_review |-> FALSE]

(* what a request that writes answers, as far as the tables go: nothing *)
NoResult ==
    [found |-> FALSE, status |-> None, rows |-> << >>,
     total_analyses |-> 0, pending_reviews |-> 0]

(* a worker with no request yet *)
NoRequest ==
    [pc |-> "idle", op |-> None, image_id |-> 0, escalate |-> FALSE,
     upd |-> NoUpdate, ret |-> None, result |-> NoResult]

(* no exchange yet: no AI endpoint has received a request *)
NoExchange ==
    [endpoint |-> None, configured |-> FALSE, content_type |-> None,
     payload |-> None, called |-> FALSE, upstream |-> None,
     upstream_status |-> 0, status_code |-> 0]

(* the one patient whose lesions the tables hold *)
Patient == 1

VARIABLES
    predicted_class,   \* top prediction label of the request being assessed
    confidence,        \* its confidence, in hundredths
    body_region,       \* the request's body region (None when absent)
    analysis,          \* risk_assessment returned by analyze_lesion, or NoAssessment
    assessment,        \* dictionary returned by _assess_risk, or NoAssessment
    workflow,          \* follow-up reported by analyze_lesion, or NoWorkflow
    history,           \* follow-up reported by get_analysis_history, or NoWorkflow
    skin_lesion_images,    \* table: sequence of rows, image_id is the index
    cadre_reviews,         \* table: sequence of rows in review_id order
    doctor_consultations,  \* table: sequence of rows in consultation_id order
    req,                   \* per worker: the request it runs, or how its last one ended
    ai_assessments,        \* table: sequence of rows in assessment_id order
    patients,              \* table: the patient ids that have a row
    is_initialized,        \* AIIntegrationService.is_initialized
    exchange               \* the request an AI endpoint received, and its answer

vars == <<predicted_class, confidence, body_region, analysis, assessment,
          workflow, history, skin_lesion_images, cadre_reviews, doctor_consultations, req,
          ai_assessments, patients, is_initialized, exchange>>

engineVars == <<predicted_class, confidence, body_region, analysis, assessment,
                workflow, history>>

inputVars == <<predicted_class, confidence, body_region>>

dbVars == <<skin_lesion_images, cadre_reviews, doctor_consultations>>

serviceVars == <<ai_assessments, patients, is_initialized, exchange>>

InitService ==
    /\ ai_assessments = << >>
    /\ patients = {Patient}
    /\ is_initialized = FALSE
    /\ exchange = NoExchange

InitDB ==
    /\ skin_lesion_images = << >>
    /\ cadre_reviews = << >>
    /\ doctor_consultations = << >>
    /\ req = [w \in Workers |-> NoRequest]

----------------------------------------------------------------------------
(* The risk assessment on its own: one classified upload, assessed by both  *)
(* implementations.                                                         *)

InitEngine ==
    /\ predicted_class \in CLASS_LABELS
    /\ confidence \in Confidences
    /\ body_region \in BodyRegions
    /\ analysis = NoAssessment
    /\ assessment = NoAssessment
    /\ workflow = NoWorkflow
    /\ history = NoWorkflow
    /\ InitDB
    /\ InitService

AnalyzeLesion ==
    /\ analysis = NoAssessment
    /\ analysis' = analyze_lesion(predicted_class, confidence, body_region)
    /\ workflow' = analyze_lesion_workflow(predicted_class, confidence, body_region)
    /\ UNCHANGED <<inputVars, assessment, history>>
    /\ UNCHANGED <<dbVars, req, serviceVars>>

AssessRisk ==
    /\ assessment = NoAssessment
    /\ assessment' = assess_risk(predicted_class, confidence, body_region)
    /\ UNCHANGED <<inputVars, analysis, workflow, history>>
    /\ UNCHANGED <<dbVars, req, serviceVars>>

(* the history endpoint reports an assessment that was stored earlier *)
GetAnalysisHistory ==
    /\ history = NoWorkflow
    /\ \E a \in {analysis, assessment} \ {NoAssessment} :
           history' = history_workflow(a.risk_level)
    /\ UNCHANGED <<inputVars, analysis, assessment, workflow>>
    /\ UNCHANGED <<dbVars, req, serviceVars>>

NextEngine == AnalyzeLesion \/ AssessRisk \/ GetAnalysisHistory

SpecEngine == InitEngine /\ [][NextEngine]_vars

----------------------------------------------------------------------------
(* Database helpers                                                         *)

Exists(id) == id \in 1..Len(skin_lesion_images)

ReviewsOf(id) == {k \in 1..Len(cadre_reviews) : cadre_reviews[k].image_id = id}

ConsultationsOf(id) ==
    {k \in 1..Len(doctor_consultations) : doctor_consultations[k].image_id = id}

(* requests that hold a cadre_reviews row they have not committed yet *)
PendingReviewInserts == {w \in Workers : req[w].pc = "scr_commit"}

(* What a session will flush for a loaded row after assignments: only the  *)
(* columns whose assigned value differs from the loaded one.               *)
Changes(loaded, assigned) ==
    [status |->
        IF assigned.status # loaded.status THEN assigned.status ELSE NoChange,
     reviewed_by_cadre |->
        IF assigned.reviewed_by_cadre # loaded.reviewed_by_cadre
        THEN assigned.reviewed_by_cadre ELSE NoChange,
     reviewed_by_doctor |->
        IF assigned.reviewed_by_doctor # loaded.reviewed_by_doctor
        THEN assigned.reviewed_by_doctor ELSE NoChange,
     set_needs_professional_review |->
        /\ assigned.needs_professional_review
        /\ ~loaded.needs_professional_review]

(* The UPDATE ... WHERE image_id = :id of the commit: the flushed columns   *)
(* are written, the others keep what the table holds then.                  *)
ApplyUpdate(row, upd) ==
    [status |-> IF upd.status # NoChange THEN upd.status ELSE row.status,
     reviewed_by_cadre |->
        IF upd.reviewed_by_cadre # NoChange
        THEN upd.reviewed_by_cadre ELSE row.reviewed_by_cadre,
     reviewed_by_doctor |->
        IF upd.reviewed_by_doctor # NoChange
        THEN upd.reviewed_by_doctor ELSE row.reviewed_by_doctor,
     needs_professional_review |->
        IF upd.set_needs_professional_review
        THEN TRUE ELSE row.needs_professional_review]

(* a request that has returned: what was called, on which image, and how   *)
(* it ended                                                                *)
Done(op, id, ret) == [NoRequest EXCEPT !.op = op, !.image_id = id, !.ret = ret]

(* db.commit() of a session holding the changes of one loaded row *)
Commit(w) ==
    /\ skin_lesion_images' = [skin_lesion_images EXCEPT ![req[w].image_id] =
          ApplyUpdate(@, req[w].upd)]
    /\ req' = [req EXCEPT ![w] = Done(req[w].op, req[w].image_id, "ok")]

Begin(w) == req[w].pc = "idle"

----------------------------------------------------------------------------
(* app/crud.py : create_skin_lesion_image                                   *)

create_skin_lesion_image(st) ==
    /\ Len(skin_lesion_images) < MaxImages
    /\ Patient \in patients      \* patient_id is a foreign key to patients
    /\ skin_lesion_images' = Append(skin_lesion_images,
           [status |-> st, reviewed_by_cadre |-> None,
            reviewed_by_doctor |-> None, needs_professional_review |-> FALSE])
    /\ UNCHANGED <<engineVars, serviceVars, cadre_reviews, doctor_consultations, req>>

(* a read request that has returned `result` *)
Answer(op, id, ret, result) == [Done(op, id, ret) EXCEPT !.result = result]

(* .first() of the query by image_id: the row, or None *)
ImageResult(id) ==
    IF Exists(id)
    THEN [NoResult EXCEPT !.found = TRUE, !.rows = <<skin_lesion_images[id]>>]
    ELSE NoResult

(* app/crud.py : get_skin_lesion_image, as a request of its own *)
get_skin_lesion_image(w, id) ==
    /\ Begin(w)
    /\ req' = [req EXCEPT ![w] =
          Answer("get_skin_lesion_image", id,
                 IF Exists(id) THEN "ok" ELSE "none", ImageResult(id))]
    /\ UNCHANGED <<engineVars, serviceVars, dbVars>>

(* the rows of a table, latest first *)
RECURSIVE Reversed(_)
Reversed(rows) ==
    IF rows = << >> THEN << >>
    ELSE Append(Reversed(Tail(rows)), Head(rows))

(* app/crud.py : get_patient_lesion_history for the patient the images     *)
(* belong to: the counts and the recent analyses (latest upload first).    *)
(* high_risk_count is read from ai_assessments, which no request of this   *)
(* model writes.                                                           *)
HistoryResult ==
    [NoResult EXCEPT
        !.found = TRUE,
        !.rows = Reversed(skin_lesion_images),
        !.total_analyses = Len(skin_lesion_images),
        !.pending_reviews =
            Cardinality({id \in 1..Len(skin_lesion_images) :
                            skin_lesion_images[id].status = "pending"})]

get_patient_lesion_history(w) ==
    /\ Begin(w)
    /\ req' = [req EXCEPT ![w] =
          Answer("get_patient_lesion_history", 0, "ok", HistoryResult)]
    /\ UNCHANGED <<engineVars, serviceVars, dbVars>>

(* app/routers/cadre.py : get_review_details; of the columns a review or a *)
(* consultation writes, the answer carries the status.  A miss raises the  *)
(* 404 inside the try block, whose handler answers 500.                    *)
ReviewDetailsResult(id) ==
    IF Exists(id)
    THEN [NoResult EXCEPT !.found = TRUE, !.status = skin_lesion_images[id].status]
    ELSE NoResult

(* opening the details marks the image as taken by the cadre *)
get_review_details_claims(w, id) ==
    /\ Begin(w)
    /\ req' = [req EXCEPT ![w] =
          Answer("get_review_details", id,
                 IF Exists(id) THEN "ok" ELSE "500", ReviewDetailsResult(id))]
    /\ skin_lesion_images' =
          IF Exists(id)
          THEN [skin_lesion_images EXCEPT ![id].reviewed_by_cadre = cadre_of[w]]
          ELSE skin_lesion_images
    /\ UNCHANGED <<engineVars, serviceVars, cadre_reviews, doctor_consultations>>

get_review_details(w, id) ==
    /\ Begin(w)
    /\ req' = [req EXCEPT ![w] =
          Answer("get_review_details", id,
                 IF Exists(id) THEN "ok" ELSE "500", ReviewDetailsResult(id))]
    /\ UNCHANGED <<engineVars, serviceVars, dbVars>>

----------------------------------------------------------------------------
(* app/routers/skin_lesions.py : submit_doctor_consultation.  The handler  *)
(* builds consultation_data and answers success; it writes no table and    *)
(* looks no image up.                                                      *)
submit_doctor_consultation(w, id) ==
    /\ Begin(w)
    /\ req' = [req EXCEPT ![w] = Done("submit_doctor_consultation", id, "ok")]
    /\ UNCHANGED <<engineVars, serviceVars, dbVars>>

----------------------------------------------------------------------------
(* app/routers/cadre.py : submit_cadre_review                               *)

(* The query for the pending image and the assignments to the loaded row.  *)
(* A miss raises the 404 inside the try block, whose handler rolls back    *)
(* and answers 500.                                                        *)
submit_cadre_review_read(w, id, esc) ==
    /\ Begin(w)
    /\ Len(cadre_reviews) + Cardinality(PendingReviewInserts) < MaxReviews
    /\ LET found == Exists(id) /\ skin_lesion_images[id].status = "pending"
           loaded == skin_lesion_images[id]
           assigned == [loaded EXCEPT
                          !.reviewed_by_cadre = cadre_of[w],
                          !.status = IF esc THEN "escalated" ELSE "reviewed",
                          !.needs_professional_review = IF esc THEN TRUE ELSE @]
       IN  req' = [req EXCEPT ![w] =
              IF found
              THEN [NoRequest EXCEPT !.op = "submit_cadre_review",
                      !.pc = "scr_commit", !.image_id = id, !.escalate = esc,
                      !.upd = Changes(loaded, assigned)]
              ELSE Done("submit_cadre_review", id, "500")]
    /\ UNCHANGED <<engineVars, serviceVars, dbVars>>

(* db.add(cadre_review) and db.commit() *)
submit_cadre_review_commit(w) ==
    /\ req[w].pc = "scr_commit"
    /\ cadre_reviews' = Append(cadre_reviews,
          [image_id |-> req[w].image_id, cadre_id |-> cadre_of[w],
           escalate_to_doctor |-> req[w].escalate])
    /\ Commit(w)
    /\ UNCHANGED <<engineVars, serviceVars, doctor_consultations>>

----------------------------------------------------------------------------
(* app/crud.py : update_skin_lesion_status                                  *)

(* get_skin_lesion_image and the assignments; None back when it is missing *)
StatusAssignments(w, id, st, reviewed_by) ==
    LET loaded == skin_lesion_images[id]
        assigned == [loaded EXCEPT
                       !.status = st,
                       !.reviewed_by_cadre =
                           IF reviewed_by # None /\ st \in {"reviewed", "completed"}
                           THEN reviewed_by ELSE @]
    IN  Changes(loaded, assigned)

update_skin_lesion_status_call(w, id, st, reviewed_by) ==
    /\ Begin(w)
    /\ req' = [req EXCEPT ![w] =
          IF Exists(id)
          THEN [NoRequest EXCEPT !.op = "update_skin_lesion_status",
                  !.pc = "uss_commit", !.image_id = id,
                  !.upd = StatusAssignments(w, id, st, reviewed_by)]
          ELSE Done("update_skin_lesion_status", id, "none")]
    /\ UNCHANGED <<engineVars, serviceVars, dbVars>>

(* the same, called by create_cadre_review after its own commit *)
update_skin_lesion_status_read(w) ==
    /\ req[w].pc = "uss_read"
    /\ LET id == req[w].image_id
       IN  req' = [req EXCEPT ![w] =
              IF Exists(id)
              THEN [@ EXCEPT !.pc = "uss_commit",
                      !.upd = StatusAssignments(w, id, "reviewed", cadre_of[w])]
              ELSE Done(req[w].op, id, "ok")]
    /\ UNCHANGED <<engineVars, serviceVars, dbVars>>

update_skin_lesion_status_commit(w) ==
    /\ req[w].pc = "uss_commit"
    /\ Commit(w)
    /\ UNCHANGED <<engineVars, serviceVars, cadre_reviews, doctor_consultations>>

----------------------------------------------------------------------------
(* app/crud.py : create_cadre_review                                        *)

(* The INSERT and its commit; the foreign key on image_id rejects a row for *)
(* an image that does not exist.                                            *)
create_cadre_review_insert(w, id, esc) ==
    /\ Begin(w)
    /\ Len(cadre_reviews) + Cardinality(PendingReviewInserts) < MaxReviews
    /\ cadre_reviews' =
          IF Exists(id)
          THEN Append(cadre_reviews,
                 [image_id |-> id, cadre_id |-> cadre_of[w],
                  escalate_to_doctor |-> esc])
          ELSE cadre_reviews
    /\ req' = [req EXCEPT ![w] =
          IF Exists(id)
          THEN [NoRequest EXCEPT !.op = "create_cadre_review",
                  !.pc = "uss_read", !.image_id = id, !.escalate = esc]
          ELSE Done("create_cadre_review", id, "IntegrityError")]
    /\ UNCHANGED <<engineVars, serviceVars, skin_lesion_images, doctor_consultations>>

----------------------------------------------------------------------------
(* app/crud.py : create_doctor_consultation                                 *)

create_doctor_consultation_insert(w, id) ==
    /\ Begin(w)
    /\ Len(doctor_consultations) < MaxConsultations
    /\ doctor_consultations' =
          IF Exists(id)
          THEN Append(doctor_consultations,
                 [image_id |-> id, doctor_id |-> doctor_of[w]])
          ELSE doctor_consultations
    /\ req' = [req EXCEPT ![w] =
          IF Exists(id)
          THEN [NoRequest EXCEPT !.op = "create_doctor_consultation",
                  !.pc = "cdc_read", !.image_id = id]
          ELSE Done("create_doctor_consultation", id, "IntegrityError")]
    /\ UNCHANGED <<engineVars, serviceVars, skin_lesion_images, cadre_reviews>>

(* lesion = get_skin_lesion_image(...) and, if lesion, the assignments *)
create_doctor_consultation_read(w) ==
    /\ req[w].pc = "cdc_read"
    /\ LET id == req[w].image_id
           loaded == skin_lesion_images[id]
           assigned == [loaded EXCEPT !.reviewed_by_doctor = doctor_of[w],
                                      !.status = "completed"]
       IN  req' = [req EXCEPT ![w] =
              IF Exists(id)
              THEN [@ EXCEPT !.pc = "cdc_commit",
                      !.upd = Changes(loaded, assigned)]
              ELSE Done(req[w].op, id, "ok")]
    /\ UNCHANGED <<engineVars, serviceVars, dbVars>>

create_doctor_consultation_commit(w) ==
    /\ req[w].pc = "cdc_commit"
    /\ Commit(w)
    /\ UNCHANGED <<engineVars, serviceVars, cadre_reviews, doctor_consultations>>

----------------------------------------------------------------------------
Init ==
    /\ predicted_class = None
    /\ confidence = 0
    /\ body_region = None
    /\ analysis = NoAssessment
    /\ assessment = NoAssessment
    /\ workflow = NoWorkflow
    /\ history = NoWorkflow
    /\ InitDB
    /\ InitService

(* an upload carries the status the creation schema gives it *)
CreateImage == \E st \in UploadStatuses : create_skin_lesion_image(st)

GetImage == \E w \in Workers, id \in ImageIds : get_skin_lesion_image(w, id)

SubmitCadreReviewRead ==
    \E w \in Workers, id \in ImageIds, esc \in BOOLEAN :
        submit_cadre_review_read(w, id, esc)

SubmitCadreReviewCommit == \E w \in Workers : submit_cadre_review_commit(w)

UpdateStatusCall ==
    \E w \in Workers, id \in ImageIds, st \in Statuses :
        \E reviewed_by \in {None, cadre_of[w]} :
            update_skin_lesion_status_call(w, id, st, reviewed_by)

UpdateStatusRead == \E w \in Workers : update_skin_lesion_status_read(w)

UpdateStatusCommit == \E w \in Workers : update_skin_lesion_status_commit(w)

CreateCadreReview ==
    \E w \in Workers, id \in ImageIds, esc \in BOOLEAN :
        create_cadre_review_insert(w, id, esc)

CreateDoctorConsultation ==
    \E w \in Workers, id \in ImageIds : create_doctor_consultation_insert(w, id)

DoctorConsultationRead == \E w \in Workers : create_doctor_consultation_read(w)

DoctorConsultationCommit == \E w \in Workers : create_doctor_consultation_commit(w)

SubmitDoctorConsultation ==
    \E w \in Workers, id \in ImageIds : submit_doctor_consultation(w, id)

Next ==
    \/ CreateImage
    \/ SubmitCadreReviewRead
    \/ SubmitCadreReviewCommit
    \/ UpdateStatusCall
    \/ UpdateStatusRead
    \/ UpdateStatusCommit
    \/ CreateCadreReview
    \/ CreateDoctorConsultation
    \/ DoctorConsultationRead
    \/ DoctorConsultationCommit
    \/ SubmitDoctorConsultation

Spec == Init /\ [][Next]_vars

----------------------------------------------------------------------------
(* The read requests of both workers, interleaved with uploads and with    *)
(* the steps of the cadre reviews and doctor consultations one worker      *)
(* submits.                                                                *)

Submitter == "w1"

ReviewRead ==
    \E id \in ImageIds, esc \in BOOLEAN :
        submit_cadre_review_read(Submitter, id, esc)

ReviewCommit == submit_cadre_review_commit(Submitter)

ConsultationInsert ==
    \E id \in ImageIds : create_doctor_consultation_insert(Submitter, id)

ConsultationRead == create_doctor_consultation_read(Submitter)

ConsultationCommit == create_doctor_consultation_commit(Submitter)

GetPatientHistory == \E w \in Workers : get_patient_lesion_history(w)

GetReviewDetails ==
    \E w \in Workers, id \in ImageIds : get_review_details(w, id)

NextReads ==
    \/ CreateImage
    \/ GetImage
    \/ GetPatientHistory
    \/ GetReviewDetails
    \/ ReviewRead
    \/ ReviewCommit
    \/ ConsultationInsert
    \/ ConsultationRead
    \/ ConsultationCommit

SpecReads == Init /\ [][NextReads]_vars

----------------------------------------------------------------------------
(* Properties of the risk assessment, checked under SpecEngine             *)

Rank(risk) ==
    CASE risk = "LOW" -> 1
      [] risk = "MEDIUM" -> 2
      [] risk = "HIGH" -> 3
      [] risk = "URGENT" -> 4
      [] OTHER -> 0

HighSeverity == {MEL, BCC, SCC}

(* C8: for every class label, every confidence below 0.4 and every body    *)
(* region (or none), both risk assessments report UNCERTAIN: the           *)
(* confidence gate wins over the melanoma override and the region upgrade. *)
C8_LowConfidenceIsUncertain ==
    confidence < 40 =>
        /\ analysis # NoAssessment => analysis.risk_level = "UNCERTAIN"
        /\ assessment # NoAssessment => assessment.risk_level = "UNCERTAIN"

C8_Witness ==
    /\ predicted_class = MEL /\ confidence = 35 /\ body_region = "face"
    /\ analysis # NoAssessment /\ analysis.risk_level = "UNCERTAIN"
    /\ assessment # NoAssessment /\ assessment.risk_level = "UNCERTAIN"

C10_RegionNeverLowersRisk ==
    confidence >= 40 =>
        /\ analysis # NoAssessment =>
              /\ Rank(analysis.risk_level) >= 1
              /\ Rank(analysis.risk_level)
                    >= Rank(get_risk_level(predicted_class, confidence, None))
        /\ assessment # NoAssessment =>
              /\ Rank(assessment.risk_level) >= 1
              /\ Rank(assessment.risk_level)
                    >= Rank(assess_risk(predicted_class, confidence, None).risk_level)

C10_Witness ==
    /\ predicted_class = NEV /\ confidence = 90 /\ body_region = "Face"
    /\ analysis # NoAssessment /\ analysis.risk_level = "MEDIUM"
    /\ assessment # NoAssessment /\ assessment.risk_level = "MEDIUM"
    /\ get_risk_level(predicted_class, confidence, None) = "LOW"

InHighRiskRegion == Truthy(body_region) /\ Lower(body_region) \in high_risk_regions

(* C11: for a catalog label other than melanoma at a confidence of 0.4 or   *)
(* more, both risk assessments report the label's base tier raised one     *)
(* step (LOW to MEDIUM, MEDIUM to HIGH, HIGH unchanged) when the body      *)
(* region is face, neck, hands, feet or genitals, and the base tier itself *)
(* for any other region or none.                                           *)
C11_HighRiskRegionRaisesOneStep ==
    (predicted_class \in CLASS_LABELS \ {MEL} /\ confidence >= 40) =>
        LET base == RISK_LEVELS[predicted_class]
            want == IF ~InHighRiskRegion THEN base
                    ELSE CASE base = "LOW" -> "MEDIUM"
                           [] base = "MEDIUM" -> "HIGH"
                           [] OTHER -> base
        IN  /\ analysis # NoAssessment => analysis.risk_level = want
            /\ assessment # NoAssessment => assessment.risk_level = want

(* C12: for every confidence in [0, 1] both assessments report the         *)
(* confidence tier VERY_LOW below 0.4, LOW in [0.4, 0.6), MEDIUM in        *)
(* [0.6, 0.8) and HIGH from 0.8 on; 0.4, 0.6 and 0.8 fall in the upper     *)
(* bucket.                                                                 *)
C12_ConfidenceTier ==
    (confidence >= 0 /\ confidence <= 100) =>
        LET want == CASE confidence < 40 -> "VERY_LOW"
                      [] confidence >= 40 /\ confidence < 60 -> "LOW"
                      [] confidence >= 60 /\ confidence < 80 -> "MEDIUM"
                      [] confidence >= 80 -> "HIGH"
        IN  /\ analysis # NoAssessment => analysis.confidence_level = want
            /\ assessment # NoAssessment => assessment.confidence_level = want

C12_Witness ==
    /\ confidence = 60
    /\ analysis # NoAssessment /\ analysis.confidence_level = "MEDIUM"
    /\ assessment # NoAssessment /\ assessment.confidence_level = "MEDIUM"

(* C13: for every label, confidence and body region, both assessments set  *)
(* needs_professional_review exactly when the label is high-severity (MEL, *)
(* BCC, SCC) or the confidence is below 0.5, whatever the body region and  *)
(* the final risk tier.                                                    *)
C13_NeedsReviewRule ==
    LET want == predicted_class \in HighSeverity \/ confidence < 50
    IN  /\ analysis # NoAssessment =>
              analysis.needs_professional_review = want
        /\ assessment # NoAssessment =>
              assessment.needs_professional_review = want

(* the follow-up window the risk tier fixes *)
FollowUpOfTier(risk) ==
    CASE risk = "URGENT" -> 1
      [] risk = "HIGH" -> 7
      [] risk = "MEDIUM" -> 30
      [] risk = "LOW" -> 90
      [] risk = "UNCERTAIN" -> 30

----------------------------------------------------------------------------
(* The risk assessment called with input outside its domain: a label that  *)
(* is not in CLASS_LABELS, or a confidence outside [0, 1].                 *)

ScoreMargin == 3

InvalidConfidences == ((0 - ScoreMargin)..(0 - 1)) \cup (101..(100 + ScoreMargin))

InitMisuse ==
    /\ predicted_class \in CLASS_LABELS \cup {UnknownLabel}
    /\ confidence \in Confidences \cup InvalidConfidences
    /\ predicted_class = UnknownLabel \/ confidence \in InvalidConfidences
    /\ body_region \in BodyRegions
    /\ analysis = NoAssessment
    /\ assessment = NoAssessment
    /\ workflow = NoWorkflow
    /\ history = NoWorkflow
    /\ InitDB
    /\ InitService

SpecMisuse == InitMisuse /\ [][NextEngine]_vars

(* C15: for a label outside the catalog or a confidence outside [0, 1]     *)
(* neither risk assessment produces an assessment (the call ends in        *)
(* UnknownLabelError or InvalidScoreError instead of a risk tier).         *)
C15_InvalidInputYieldsNoAssessment ==
    (predicted_class \notin CLASS_LABELS \/ confidence < 0 \/ confidence > 100) =>
        /\ analysis = NoAssessment
        /\ assessment = NoAssessment

----------------------------------------------------------------------------
(* Two requests racing for one image: the table holds one image, each      *)
(* worker makes one call, and a call starts only while the image is still  *)
(* open to it, so two finished calls of the same kind overlapped.          *)

FreshForCadre(id) ==
    /\ Exists(id)
    /\ skin_lesion_images[id].status = "pending"
    /\ skin_lesion_images[id].reviewed_by_cadre = None

OpenForDoctor(id) ==
    /\ Exists(id)
    /\ skin_lesion_images[id].status # "completed"
    /\ skin_lesion_images[id].reviewed_by_doctor = None

(* the image before the race: just uploaded, or already reviewed or        *)
(* escalated by a cadre (as submit_cadre_review leaves it)                  *)
InitRace ==
    /\ predicted_class = None
    /\ confidence = 0
    /\ body_region = None
    /\ analysis = NoAssessment
    /\ assessment = NoAssessment
    /\ workflow = NoWorkflow
    /\ history = NoWorkflow
    /\ \/ /\ skin_lesion_images =
                <<[status |-> "pending", reviewed_by_cadre |-> None,
                   reviewed_by_doctor |-> None,
                   needs_professional_review |-> FALSE]>>
          /\ cadre_reviews = << >>
       \/ \E esc \in BOOLEAN :
             /\ skin_lesion_images =
                   <<[status |-> IF esc THEN "escalated" ELSE "reviewed",
                      reviewed_by_cadre |-> "cadre1",
                      reviewed_by_doctor |-> None,
                      needs_professional_review |-> esc]>>
             /\ cadre_reviews =
                   <<[image_id |-> 1, cadre_id |-> "cadre1",
                      escalate_to_doctor |-> esc]>>
    /\ doctor_consultations = << >>
    /\ req = [w \in Workers |-> NoRequest]
    /\ InitService

RaceCadreReview ==
    \E w \in Workers, id \in ImageIds, esc \in BOOLEAN :
        /\ req[w].op = None
        /\ FreshForCadre(id)
        /\ submit_cadre_review_read(w, id, esc)

RaceDoctorConsultation ==
    \E w \in Workers, id \in ImageIds :
        /\ req[w].op = None
        /\ OpenForDoctor(id)
        /\ create_doctor_consultation_insert(w, id)

NextRace ==
    \/ RaceCadreReview
    \/ SubmitCadreReviewCommit
    \/ RaceDoctorConsultation
    \/ DoctorConsultationRead
    \/ DoctorConsultationCommit

SpecRace == InitRace /\ [][NextRace]_vars

Returned(w, op, id) ==
    req[w].pc = "idle" /\ req[w].op = op /\ req[w].image_id = id

(* C1: when two submit_cadre_review calls race on the same fresh pending   *)
(* image, exactly one succeeds and the other fails, one cadre_reviews row  *)
(* is recorded, and the image ends reviewed or escalated as the recorded   *)
(* review's escalate flag says.                                            *)
C1_OneCadreReviewWins ==
    \A id \in ImageIds :
        (\A w \in Workers : Returned(w, "submit_cadre_review", id)) =>
            /\ Cardinality({w \in Workers : req[w].ret = "ok"}) = 1
            /\ Cardinality({w \in Workers : req[w].ret # "ok"}) = 1
            /\ Cardinality(ReviewsOf(id)) = 1
            /\ \A k \in ReviewsOf(id) :
                  skin_lesion_images[id].status =
                      IF cadre_reviews[k].escalate_to_doctor
                      THEN "escalated" ELSE "reviewed"

(* C2: when two create_doctor_consultation calls race on the same image    *)
(* that has no doctor and is not completed, exactly one succeeds and the   *)
(* other fails; the image is completed, reviewed_by_doctor is the winner,  *)
(* and one doctor_consultations row is recorded.                           *)
C2_OneDoctorConsultationWins ==
    \A id \in ImageIds :
        (\A w \in Workers : Returned(w, "create_doctor_consultation", id)) =>
            /\ Cardinality({w \in Workers : req[w].ret = "ok"}) = 1
            /\ Cardinality({w \in Workers : req[w].ret # "ok"}) = 1
            /\ skin_lesion_images[id].status = "completed"
            /\ \A w \in Workers :
                  req[w].ret = "ok" =>
                      skin_lesion_images[id].reviewed_by_doctor = doctor_of[w]
            /\ Cardinality(ConsultationsOf(id)) = 1

----------------------------------------------------------------------------
(* Properties of the review lifecycle, checked under Spec                  *)

Rows == 1..Len(skin_lesion_images)

(* C3: a completed image stays completed in every step. *)
C3_CompletedIsTerminal ==
    [][\A id \in Rows :
          skin_lesion_images[id].status = "completed" =>
              skin_lesion_images'[id].status = "completed"]_vars

Forward(a, b) ==
    \/ a = b
    \/ a = "pending" /\ b \in {"reviewed", "escalated", "completed"}
    \/ a \in {"reviewed", "escalated"} /\ b = "completed"

(* C4: in every step the status of an image stays or moves forward along   *)
(* pending -> {reviewed | escalated} -> completed (or pending -> completed);*)
(* never backward, never between reviewed and escalated.                   *)
C4_StatusMovesForward ==
    [][\A id \in Rows :
          Forward(skin_lesion_images[id].status,
                  skin_lesion_images'[id].status)]_vars

(* the step is the commit of a cadre review submission on image id *)
CadreReviewStep(id) ==
    \E w \in Workers :
        /\ req[w].pc \in {"scr_commit", "uss_commit"}
        /\ req[w].op \in {"submit_cadre_review", "create_cadre_review"}
        /\ req[w].image_id = id
        /\ req'[w].pc = "idle"

(* the step is the commit of a doctor consultation submission on image id *)
DoctorConsultationStep(id) ==
    \E w \in Workers :
        /\ req[w].pc = "cdc_commit"
        /\ req[w].image_id = id
        /\ req'[w].pc = "idle"

(* C5: reviewed_by_cadre and reviewed_by_doctor go from unset to a value   *)
(* at most once and are never overwritten; the first is set only by a      *)
(* cadre review submission, the second only by a doctor consultation.      *)
C5_ReviewersSetOnce ==
    [][\A id \in Rows :
          LET old == skin_lesion_images[id]
              new == skin_lesion_images'[id]
          IN  /\ old.reviewed_by_cadre # None =>
                    new.reviewed_by_cadre = old.reviewed_by_cadre
              /\ old.reviewed_by_doctor # None =>
                    new.reviewed_by_doctor = old.reviewed_by_doctor
              /\ new.reviewed_by_cadre # old.reviewed_by_cadre =>
                    CadreReviewStep(id)
              /\ new.reviewed_by_doctor # old.reviewed_by_doctor =>
                    DoctorConsultationStep(id)]_vars

(* C6: every image has at most one cadre_reviews row. *)
C6_AtMostOneCadreReview ==
    \A id \in ImageIds : Cardinality(ReviewsOf(id)) <= 1

(* C7: every image has at most one doctor_consultations row. *)
C7_AtMostOneDoctorConsultation ==
    \A id \in ImageIds : Cardinality(ConsultationsOf(id)) <= 1

----------------------------------------------------------------------------
(* Effects and failures of the review and the consultation, checked under  *)
(* Spec                                                                    *)

ReviewOps == {"submit_cadre_review", "create_cadre_review"}

ConsultationOps == {"create_doctor_consultation", "submit_doctor_consultation"}

(* C16: a cadre review that succeeds on a pending image with no cadre      *)
(* reviewer leaves reviewed_by_cadre at the submitting cadre and the       *)
(* status at escalated when escalate_to_doctor was set and at reviewed     *)
(* when it was not, and has added exactly one cadre_reviews row;           *)
(* reviewed_by_doctor and doctor_consultations are as before.              *)
C16_CadreReviewEffect ==
    [][\A w \in Workers :
          LET id == req[w].image_id
              row == [image_id |-> id, cadre_id |-> cadre_of[w],
                      escalate_to_doctor |-> req[w].escalate]
          IN  /\ (/\ req[w].pc = "idle"
                  /\ req'[w].op = "create_cadre_review"
                  /\ req'[w].pc = "uss_read") =>
                    /\ Len(cadre_reviews') = Len(cadre_reviews) + 1
                    /\ UNCHANGED <<skin_lesion_images, doctor_consultations>>
              /\ (/\ req[w].op \in ReviewOps
                  /\ req[w].pc \in {"scr_commit", "uss_commit"}
                  /\ req'[w].pc = "idle" /\ req'[w].ret = "ok"
                  /\ FreshForCadre(id)) =>
                    /\ skin_lesion_images'[id].reviewed_by_cadre = cadre_of[w]
                    /\ skin_lesion_images'[id].status =
                          IF req[w].escalate THEN "escalated" ELSE "reviewed"
                    /\ skin_lesion_images'[id].reviewed_by_doctor =
                          skin_lesion_images[id].reviewed_by_doctor
                    /\ doctor_consultations' = doctor_consultations
                    /\ cadre_reviews' =
                          IF req[w].op = "submit_cadre_review"
                          THEN Append(cadre_reviews, row) ELSE cadre_reviews]_vars

(* C17: a cadre review called for an image that does not exist answers     *)
(* not found (404), and one called for an image that is not pending or     *)
(* already has a cadre reviewer answers invalid state / already claimed    *)
(* (400 or 409); the call ends there, with that answer, and no table       *)
(* changes.                                                                *)
C17_FailedCadreReviewIsTyped ==
    [][\A w \in Workers :
          LET id == req'[w].image_id
          IN  (/\ req[w].pc = "idle"
               /\ req'[w] # req[w]
               /\ req'[w].op \in ReviewOps
               /\ ~FreshForCadre(id)) =>
                 /\ UNCHANGED dbVars
                 /\ req'[w].pc = "idle"
                 /\ req'[w].ret \in (IF Exists(id) THEN {"400", "409"} ELSE {"404"})]_vars

----------------------------------------------------------------------------
(* The read requests, checked under SpecReads                              *)

ReadOps ==
    {"get_skin_lesion_image", "get_patient_lesion_history", "get_review_details"}

(* what a read answers in the current state of the tables *)
ReadResult(op, id) ==
    CASE op = "get_skin_lesion_image" -> ImageResult(id)
      [] op = "get_patient_lesion_history" -> HistoryResult
      [] op = "get_review_details" -> ReviewDetailsResult(id)

(* C19: get_skin_lesion_image, get_patient_lesion_history and              *)
(* get_review_details, wherever they fall between the steps of the other   *)
(* requests, change no image row, cadre_reviews row or                     *)
(* doctor_consultations row, and what they answer is fixed by the tables   *)
(* alone, so two calls with no write between them answer the same.         *)
C19_ReadsAreReadOnly ==
    [][\A w \in Workers :
          (req'[w] # req[w] /\ req'[w].op \in ReadOps) =>
              /\ UNCHANGED dbVars
              /\ req'[w].pc = "idle"
              /\ req'[w].result = ReadResult(req'[w].op, req'[w].image_id)]_vars

C19_Witness ==
    /\ req[Submitter].pc = "scr_commit"
    /\ Len(skin_lesion_images) >= 1
    /\ skin_lesion_images[1].status = "pending"
    /\ \E w \in Workers \ {Submitter} :
          /\ req[w].op = "get_patient_lesion_history"
          /\ req[w].result.total_analyses = Len(skin_lesion_images)
          /\ req[w].result.pending_reviews >= 1

----------------------------------------------------------------------------
(* The cadre queue, checked under Spec                                     *)

(* app/crud.py : get_pending_reviews, with no risk_levels filter *)
get_pending_reviews ==
    {id \in Rows :
        /\ skin_lesion_images[id].needs_professional_review = TRUE
        /\ skin_lesion_images[id].reviewed_by_cadre = None}

(* app/routers/cadre.py : get_pending_reviews, every image having its      *)
(* patient and its ai_assessments row, so that the joins drop nothing      *)
cadre_get_pending_reviews ==
    {id \in Rows :
        /\ skin_lesion_images[id].status = "pending"
        /\ skin_lesion_images[id].reviewed_by_cadre = None}

(* app/services/lesion_service.py : get_risk_priority_queue, the           *)
(* "pending_reviews" of its placeholder                                    *)
get_risk_priority_queue == {}

(* C20: in every reachable state each cadre queue holds exactly the images *)
(* whose status is pending, whatever their needs_professional_review; an   *)
(* image that is reviewed, escalated or completed is in none.              *)
C20_CadreQueueIsPending ==
    LET pending == {id \in Rows : skin_lesion_images[id].status = "pending"}
    IN  /\ get_pending_reviews = pending
        /\ cadre_get_pending_reviews = pending
        /\ get_risk_priority_queue = pending

-----------------------------------------------------------------------------
(* Escalation                                                              *)

(* C21: a cadre review submitted with escalate_to_doctor set, completing   *)
(* on an image that was pending with no cadre reviewer, leaves the image   *)
(* escalated and out of both cadre queues; and an escalated image stays    *)
(* escalated in every step except one that makes it completed.             *)
C21_EscalationReachesDoctor ==
    [][/\ \A w \in Workers :
             LET id == req[w].image_id
             IN  (/\ req[w].op \in ReviewOps
                  /\ req[w].pc \in {"scr_commit", "uss_commit"}
                  /\ req'[w].pc = "idle" /\ req'[w].ret = "ok"
                  /\ req[w].escalate
                  /\ FreshForCadre(id)) =>
                    /\ skin_lesion_images'[id].status = "escalated"
                    /\ id \notin get_pending_reviews'
                    /\ id \notin cadre_get_pending_reviews'
       /\ \A id \in Rows :
             skin_lesion_images[id].status = "escalated" =>
                skin_lesion_images'[id].status \in {"escalated", "completed"}]_vars

-----------------------------------------------------------------------------
(* The stored assessment of an image                                       *)

(* the assessment rows stored for an image *)
AssessmentsOf(id) ==
    {i \in 1..Len(ai_assessments) : ai_assessments[i].image_id = id}

(* C25: no step changes what was assessed at upload: every image keeps its *)
(* needs_professional_review, the one stored copy of the assessment's      *)
(* review flag, and every ai_assessments row keeps all its columns.        *)
C25_AssessmentIsFrozen ==
    [][/\ \A id \in Rows :
             skin_lesion_images'[id].needs_professional_review =
                skin_lesion_images[id].needs_professional_review
       /\ \A i \in 1..Len(ai_assessments) :
             /\ i <= Len(ai_assessments')
             /\ ai_assessments'[i] = ai_assessments[i]]_vars

-----------------------------------------------------------------------------
(* Review rows and the image they are about                                *)

(* C30: in every state, a cadre_reviews row is about an image that exists, *)
(* has a cadre reviewer and is not pending; and a doctor_consultations row *)
(* is about an image that exists, has a doctor reviewer and is completed.  *)
C30_ReviewRowsMatchImage ==
    /\ \A i \in 1..Len(cadre_reviews) :
          LET id == cadre_reviews[i].image_id
          IN  /\ Exists(id)
              /\ skin_lesion_images[id].reviewed_by_cadre # None
              /\ skin_lesion_images[id].status # "pending"
    /\ \A i \in 1..Len(doctor_consultations) :
          LET id == doctor_consultations[i].image_id
          IN  /\ Exists(id)
              /\ skin_lesion_images[id].reviewed_by_doctor # None
              /\ skin_lesion_images[id].status = "completed"

-----------------------------------------------------------------------------
(* The two implementations of the risk assessment                          *)

(* C29: for every catalogue label, every confidence from 0 to 1 and every  *)
(* body region, _assess_risk and the model_config functions the classifier *)
(* calls give the same risk_level, confidence_level,                       *)
(* needs_professional_review and needs_urgent_attention.                   *)
C29_AssessmentsAgree ==
    (analysis # NoAssessment /\ assessment # NoAssessment) =>
        /\ assessment.risk_level = analysis.risk_level
        /\ assessment.confidence_level = analysis.confidence_level
        /\ assessment.needs_professional_review =
              analysis.needs_professional_review
        /\ assessment.needs_urgent_attention = analysis.needs_urgent_attention

-----------------------------------------------------------------------------
(* The AI endpoints: app/routers/ai_prediction.py (/predict and            *)
(* /predict-space, which post the file to Hugging Face) and                *)
(* app/routers/skin_lesions.py (/upload-and-analyze, which runs the local  *)
(* predictor).  An exchange is the request one of them received: the       *)
(* endpoint, whether its environment variable is set, the content type and *)
(* payload of the file; then what the handler called and answered.         *)

ImageTypes == {"image/jpeg", "image/png"}

ContentTypes == {None, "", "text/plain", "application/pdf"} \cup ImageTypes

(* content_type.startswith('image/') on the content types above *)
StartsWithImage(ct) == ct \in ImageTypes

Payloads == {"ok", "too_large", "unreadable"}

(* what the POST to Hugging Face ends in: a response, or an exception *)
UpstreamKinds == {"response", "timeout", "error"}

UpstreamStatuses == {200, 403, 404, 429, 503}

(* what the local predictor ends in *)
PredictorOutcomes == {"success", "failure", "exception"}

Requests ==
    {[NoExchange EXCEPT !.endpoint = ep, !.configured = c,
                        !.content_type = ct, !.payload = pl] :
        ep \in {"predict", "predict-space"}, c \in BOOLEAN,
        ct \in ContentTypes, pl \in Payloads}
    \cup
    {[NoExchange EXCEPT !.endpoint = "upload-and-analyze",
                        !.content_type = ct, !.payload = pl] :
        ct \in ContentTypes, pl \in Payloads}

(* the handler answered without calling anything *)
Refuse(e, code) == [e EXCEPT !.status_code = code]

(* the handler called the classifier, which ended in kind (and status),    *)
(* and answered                                                            *)
Respond(e, kind, st, code) ==
    [e EXCEPT !.called = TRUE, !.upstream = kind, !.upstream_status = st,
              !.status_code = code]

(* `except Exception as e: raise HTTPException(status_code=500, ...)`      *)
(* around a `raise HTTPException(status_code=code)`: HTTPException is an   *)
(* Exception, so the handler catches it                                    *)
except_Exception(code) == 500

(* the try block of predict_skin_cancer, given how the POST ended *)
predict_try(kind, st) ==
    IF kind = "timeout" THEN 504
    ELSE IF kind = "error" THEN 500
    ELSE IF st = 503 THEN except_Exception(503)
    ELSE IF st = 403 THEN except_Exception(503)
    ELSE IF st # 200 THEN except_Exception(st)
    ELSE 200

(* the try block of predict_skin_cancer_space *)
predict_space_try(kind, st) ==
    IF kind = "timeout" THEN 504
    ELSE IF kind = "error" THEN 500
    ELSE IF st # 200 THEN except_Exception(st)
    ELSE 200

(* the checks both handlers make before their try block: the status they   *)
(* raise, or 0 when the file goes on to the classifier                     *)
predict_checks(e) ==
    IF ~e.configured THEN 500
    ELSE IF ~Truthy(e.content_type) \/ ~StartsWithImage(e.content_type) THEN 400
    ELSE IF e.payload = "too_large" THEN 400
    ELSE 0

predict_skin_cancer ==
    /\ exchange.endpoint = "predict"
    /\ exchange.status_code = 0
    /\ IF predict_checks(exchange) # 0
       THEN exchange' = Refuse(exchange, predict_checks(exchange))
       ELSE \E kind \in UpstreamKinds :
               \E st \in (IF kind = "response" THEN UpstreamStatuses ELSE {0}) :
                  exchange' = Respond(exchange, kind, st, predict_try(kind, st))
    /\ UNCHANGED <<engineVars, dbVars, req, ai_assessments, patients, is_initialized>>

predict_skin_cancer_space ==
    /\ exchange.endpoint = "predict-space"
    /\ exchange.status_code = 0
    /\ IF predict_checks(exchange) # 0
       THEN exchange' = Refuse(exchange, predict_checks(exchange))
       ELSE \E kind \in UpstreamKinds :
               \E st \in (IF kind = "response" THEN UpstreamStatuses ELSE {0}) :
                  exchange' = Respond(exchange, kind, st,
                                      predict_space_try(kind, st))
    /\ UNCHANGED <<engineVars, dbVars, req, ai_assessments, patients, is_initialized>>

(* app/services/ai_integration.py : initialize, when it succeeds *)
initialize ==
    /\ ~is_initialized
    /\ is_initialized' = TRUE
    /\ UNCHANGED <<engineVars, dbVars, req, ai_assessments, patients, exchange>>

(* ai/services/prediction_service.py : predict_lesion, its "success" *)
predict_lesion(outcome) == outcome = "success"

(* app/services/ai_integration.py : predict_skin_lesion, called without a  *)
(* db session: whether the predictor was called, and "success"             *)
predict_skin_lesion(initialized, outcome) ==
    IF ~initialized
    THEN [called |-> FALSE, success |-> FALSE]
    ELSE [called |-> TRUE, success |-> predict_lesion(outcome)]

(* app/services/lesion_service.py : analyze_skin_lesion *)
analyze_skin_lesion(initialized, outcome) ==
    predict_skin_lesion(initialized, outcome)

(* the answer of upload_and_analyze_lesion that forgets to test "success" *)
upload_status_code_unchecked(success) == 200

(* upload_and_analyze_lesion, after the analysis:                          *)
(* `if not analysis_result["success"]: raise HTTPException(500)`           *)
upload_status_code(success) == IF ~success THEN 500 ELSE 200

(* app/routers/skin_lesions.py : upload_and_analyze_lesion, for a request  *)
(* of an authenticated user.  It writes no table.                          *)
upload_and_analyze_lesion ==
    /\ exchange.endpoint = "upload-and-analyze"
    /\ exchange.status_code = 0
    /\ IF exchange.content_type = None
       THEN exchange' = Refuse(exchange, 500)   \* None.startswith: AttributeError
       ELSE IF ~StartsWithImage(exchange.content_type)
       THEN exchange' = Refuse(exchange, 400)
       ELSE IF exchange.payload = "unreadable"
       THEN exchange' = Refuse(exchange, 500)   \* Image.open raises
       ELSE \E outcome \in PredictorOutcomes :
               LET r == analyze_skin_lesion(is_initialized, outcome)
               IN  exchange' =
                      IF r.called
                      THEN Respond(exchange, outcome, 0,
                                   upload_status_code(r.success))
                      ELSE Refuse(exchange, upload_status_code(r.success))
    /\ UNCHANGED <<engineVars, dbVars, req, ai_assessments, patients, is_initialized>>

(* one request to one of the three endpoints, under every configuration *)
InitPredict ==
    /\ predicted_class = None
    /\ confidence = 0
    /\ body_region = None
    /\ analysis = NoAssessment
    /\ assessment = NoAssessment
    /\ workflow = NoWorkflow
    /\ history = NoWorkflow
    /\ InitDB
    /\ ai_assessments = << >>
    /\ patients = {Patient}
    /\ is_initialized \in BOOLEAN
    /\ exchange \in Requests

NextPredict ==
    \/ predict_skin_cancer
    \/ predict_skin_cancer_space
    \/ upload_and_analyze_lesion

SpecPredict == InitPredict /\ [][NextPredict]_vars

(* the request has been answered *)
Answered == exchange.status_code # 0

(* C27: a request to /predict or /upload-and-analyze whose content type is *)
(* not an image type is answered 400, and the classifier was not called,   *)
(* whether the API key is set or not and the AI service initialized or not.*)
C27_NonImageIsRejected ==
    (/\ Answered
     /\ exchange.endpoint \in {"predict", "upload-and-analyze"}
     /\ exchange.content_type \notin ImageTypes) =>
        /\ exchange.status_code = 400
        /\ ~exchange.called

(* C28: when /predict or /predict-space has posted the file, an upstream   *)
(* 503 is answered 503, an upstream 403 is answered 503, any other         *)
(* upstream status but 200 is answered with that status, a timeout is      *)
(* answered 504, and the answer is 200 only when the upstream status is.   *)
C28_UpstreamStatusMapping ==
    (/\ Answered
     /\ exchange.endpoint \in {"predict", "predict-space"}
     /\ exchange.called) =>
        /\ exchange.upstream = "timeout" => exchange.status_code = 504
        /\ exchange.upstream = "response" =>
              exchange.status_code =
                 (IF exchange.upstream_status \in {503, 403} THEN 503
                  ELSE exchange.upstream_status)
        /\ exchange.status_code = 200 =>
              (exchange.upstream = "response" /\ exchange.upstream_status = 200)

-----------------------------------------------------------------------------
(* Uploads and the rows a case is made of                                  *)

MaxAssessments == 2

RiskTiers == {"URGENT", "HIGH", "MEDIUM", "LOW", "UNCERTAIN"}

(* app/crud.py : create_ai_assessment; image_id is a foreign key, so the   *)
(* INSERT for an image that does not exist raises and adds nothing         *)
create_ai_assessment(id, risk) ==
    /\ Len(ai_assessments) < MaxAssessments
    /\ Exists(id)
    /\ ai_assessments' = Append(ai_assessments,
                                [image_id |-> id, risk_level |-> risk])
    /\ UNCHANGED <<engineVars, dbVars, req, patients, is_initialized, exchange>>

CreateAssessment ==
    \E id \in ImageIds, risk \in RiskTiers : create_ai_assessment(id, risk)

(* a client posts a file to /skin-lesions/upload-and-analyze *)
ReceiveUpload ==
    /\ exchange = NoExchange \/ Answered
    /\ exchange' \in {e \in Requests : e.endpoint = "upload-and-analyze"}
    /\ UNCHANGED <<engineVars, dbVars, req, ai_assessments, patients, is_initialized>>

NextUpload ==
    \/ CreateImage
    \/ CreateAssessment
    \/ initialize
    \/ ReceiveUpload
    \/ upload_and_analyze_lesion

SpecUpload == Init /\ [][NextUpload]_vars

(* C23: in every state, every image row has an ai_assessments row.         *)
C23_ImageHasAssessment ==
    \A id \in Rows : AssessmentsOf(id) # {}

(* the upload was answered after its classification failed: the service    *)
(* was not initialized, or the predictor reported a failure or raised      *)
ClassificationFailed(e) ==
    /\ e.endpoint = "upload-and-analyze"
    /\ e.status_code # 0
    /\ e.content_type \in ImageTypes
    /\ e.payload # "unreadable"
    /\ ~e.called \/ e.upstream \in {"failure", "exception"}

(* C24: the step in which an upload is answered after its classification   *)
(* failed answers an error (a status of 400 or more) and leaves every      *)
(* table as it was: no image row and no assessment row is added.           *)
C24_FailedUploadPersistsNothing ==
    [][(exchange.status_code = 0 /\ ClassificationFailed(exchange')) =>
          /\ exchange'.status_code >= 400
          /\ UNCHANGED <<skin_lesion_images, ai_assessments, cadre_reviews,
                         doctor_consultations>>]_vars

(* an upload was refused because the predictor reported a failure, with an *)
(* image and its assessment stored before                                  *)
C24_Witness ==
    /\ ClassificationFailed(exchange)
    /\ exchange.called
    /\ exchange.upstream = "failure"
    /\ exchange.status_code = 500
    /\ Len(skin_lesion_images) > 0
    /\ Len(ai_assessments) > 0

-----------------------------------------------------------------------------
(* The review queues as listings: what the routes return, row after row    *)

QueueImages == 2

(* QueueImages pending uploads, each assessed right after it was stored:   *)
(* image ids grow with upload_timestamp, and the assessment of image i is  *)
(* row i of ai_assessments, so created_at grows with the image id too      *)
InitQueue ==
    /\ predicted_class = None
    /\ confidence = 0
    /\ body_region = None
    /\ analysis = NoAssessment
    /\ assessment = NoAssessment
    /\ workflow = NoWorkflow
    /\ history = NoWorkflow
    /\ skin_lesion_images =
          [i \in 1..QueueImages |->
              [status |-> "pending", reviewed_by_cadre |-> None,
               reviewed_by_doctor |-> None, needs_professional_review |-> FALSE]]
    /\ \E risk \in [1..QueueImages -> RiskTiers] :
          ai_assessments =
             [i \in 1..QueueImages |-> [image_id |-> i, risk_level |-> risk[i]]]
    /\ cadre_reviews = << >>
    /\ doctor_consultations = << >>
    /\ req = [w \in Workers |-> NoRequest]
    /\ patients = {Patient}
    /\ is_initialized = FALSE
    /\ exchange = NoExchange

(* the row of the join for assessment i, as the routes report it *)
QueueEntry(i) ==
    [image_id |-> ai_assessments[i].image_id,
     risk_level |-> ai_assessments[i].risk_level]

(* the filter of cadre.get_pending_reviews on the joined row *)
PendingRow(i) ==
    LET id == ai_assessments[i].image_id
    IN  /\ Exists(id)
        /\ Patient \in patients
        /\ skin_lesion_images[id].status = "pending"
        /\ skin_lesion_images[id].reviewed_by_cadre = None

(* the filter of cadre.get_urgent_reviews on the joined row *)
UrgentRow(i) ==
    /\ PendingRow(i)
    /\ ai_assessments[i].risk_level \in {"URGENT", "HIGH"}

(* .order_by(AIAssessment.created_at.desc()): from assessment i down *)
RECURSIVE urgent_reviews(_)
urgent_reviews(i) ==
    IF i = 0 THEN << >>
    ELSE (IF UrgentRow(i) THEN <<QueueEntry(i)>> ELSE << >>)
         \o urgent_reviews(i - 1)

(* the orders in which a query with no ORDER BY may return the rows S *)
AnyOrder(S) ==
    {f \in [1..Cardinality(S) -> S] :
        \A i, j \in 1..Cardinality(S) : i # j => f[i] # f[j]}

(* app/routers/cadre.py : get_urgent_reviews *)
get_urgent_reviews(w) ==
    /\ Begin(w)
    /\ req' = [req EXCEPT ![w] =
          Answer("get_urgent_reviews", 0, "ok",
                 [NoResult EXCEPT !.rows = urgent_reviews(Len(ai_assessments))])]
    /\ UNCHANGED <<engineVars, dbVars, serviceVars>>

(* app/routers/cadre.py : get_pending_reviews, whose query has no ORDER BY *)
get_pending_reviews_route(w) ==
    /\ Begin(w)
    /\ \E f \in AnyOrder({i \in 1..Len(ai_assessments) : PendingRow(i)}) :
          req' = [req EXCEPT ![w] =
             Answer("get_pending_reviews", 0, "ok",
                    [NoResult EXCEPT !.rows =
                        [k \in 1..Len(f) |-> QueueEntry(f[k])]])]
    /\ UNCHANGED <<engineVars, dbVars, serviceVars>>

(* app/routers/skin_lesions.py : get_pending_reviews, which returns the    *)
(* "pending_reviews" of lesion_service.get_risk_priority_queue             *)
get_risk_priority_queue_route(w) ==
    /\ Begin(w)
    /\ req' = [req EXCEPT ![w] =
          Answer("get_risk_priority_queue", 0, "ok",
                 [NoResult EXCEPT !.rows = << >>])]
    /\ UNCHANGED <<engineVars, dbVars, serviceVars>>

GetUrgentReviews == \E w \in Workers : get_urgent_reviews(w)

GetPendingReviews == \E w \in Workers : get_pending_reviews_route(w)

GetRiskPriorityQueue == \E w \in Workers : get_risk_priority_queue_route(w)

NextQueue == GetUrgentReviews \/ GetPendingReviews \/ GetRiskPriorityQueue

SpecQueue == InitQueue /\ [][NextQueue]_vars

QueueOps == {"get_urgent_reviews", "get_pending_reviews", "get_risk_priority_queue"}

(* the priority of a risk level in a queue: URGENT, then HIGH, then MEDIUM *)
(* and UNCERTAIN together, then LOW                                        *)
QueuePriority(risk) ==
    CASE risk = "URGENT" -> 3
      [] risk = "HIGH" -> 2
      [] risk \in {"MEDIUM", "UNCERTAIN"} -> 1
      [] OTHER -> 0

(* C22: every listing a queue route has returned is ordered by risk        *)
(* priority, URGENT before HIGH before MEDIUM and UNCERTAIN before LOW,    *)
(* and within one priority by upload time, the earlier upload first.       *)
C22_QueueOrder ==
    \A w \in Workers :
        (req[w].op \in QueueOps /\ req[w].ret = "ok") =>
            LET rows == req[w].result.rows
            IN  \A i, j \in 1..Len(rows) :
                    i < j =>
                       \/ QueuePriority(rows[i].risk_level) >
                             QueuePriority(rows[j].risk_level)
                       \/ /\ QueuePriority(rows[i].risk_level) =
                                QueuePriority(rows[j].risk_level)
                          /\ rows[i].image_id < rows[j].image_id

-----------------------------------------------------------------------------
(* Deleting the patient                                                    *)

(* app/crud.py : delete_patient, reached by DELETE /patients/{patient_id}, *)
(* taken while no request is between its read and its commit.  The images *)
(* of the patient go with the row (Patient.skin_lesion_images cascades,    *)
(* and patient_id is ON DELETE CASCADE), and with each image its           *)
(* ai_assessments, cadre_reviews and doctor_consultations rows (image_id   *)
(* is ON DELETE CASCADE in each).  Every image is one of this patient's.   *)
delete_patient ==
    /\ Patient \in patients
    /\ \A w \in Workers : req[w].pc = "idle"
    /\ patients' = patients \ {Patient}
    /\ skin_lesion_images' = << >>
    /\ ai_assessments' = << >>
    /\ cadre_reviews' = << >>
    /\ doctor_consultations' = << >>
    /\ UNCHANGED <<engineVars, req, is_initialized, exchange>>

NextDelete ==
    \/ CreateImage
    \/ CreateAssessment
    \/ ReviewRead
    \/ ReviewCommit
    \/ GetImage
    \/ GetReviewDetails
    \/ delete_patient

SpecDelete == Init /\ [][NextDelete]_vars

(* C26: no step removes an image: every image id that resolves before a    *)
(* step resolves after it, and every cadre_reviews and                     *)
(* doctor_consultations row that exists before it exists after it.         *)
C26_ImagesAreNeverRemoved ==
    [][/\ \A id \in Rows : id \in Rows'
       /\ \A i \in 1..Len(cadre_reviews) :
             /\ i <= Len(cadre_reviews')
             /\ cadre_reviews'[i] = cadre_reviews[i]
       /\ \A i \in 1..Len(doctor_consultations) :
             /\ i <= Len(doctor_consultations')
             /\ doctor_consultations'[i] = doctor_consultations[i]]_vars

====
